---- MODULE Spec2Model ----
(***************************************************************************)
(* blocky: a delta patch utility.  A client mirrors the files a server     *)
(* lists: per file it reads the local bytes, compares their hash with the  *)
(* listing's, and on a mismatch sends a block signature, receives a delta  *)
(* and applies it (src/src/client.rs, src/src/server.rs).                  *)
(*                                                                         *)
(* Signature, delta and patch application are the fast_rsync calls the     *)
(* program makes (Signature::calculate, diff, apply); they are modelled    *)
(* here as operators.  Digests (SHA-256 of a file, MD4 of a block) are     *)
(* modelled as collision-free encodings of the hashed bytes; the rolling   *)
(* checksum is computed as the library computes it and does collide.       *)
(***************************************************************************)
EXTENDS Integers, Sequences, FiniteSets, TLC

\* ------------------------------------------------------------------ bounds
MaxByte == 2
MaxLen == 3
MaxBlockSize == 3

\* ----------------------------------------------------- program constants
CRC_MAGIC == 31
CrcModulus == 65536
crypto_hash_size == 8

Byte == 0..MaxByte
\* Result<T, Error>: Ok(val) or Err.
Ok(v) == [ok |-> TRUE, val |-> v]
Err == [ok |-> FALSE, val |-> <<>>]
NoMatch == 0 - 1

RECURSIVE SeqsUpTo(_, _)
SeqsUpTo(S, n) ==
    IF n = 0 THEN {<<>>}
    ELSE LET shorter == SeqsUpTo(S, n - 1)
         IN  shorter \cup {Append(s, x) : s \in {t \in shorter : Len(t) = n - 1}, x \in S}

Buffers == SeqsUpTo(Byte, MaxLen)

\* ------------------------------------------------------------- digests
\* A digest of a byte buffer: the buffer read as a numeral in base MaxByte + 2
\* with digits byte + 1, which no two buffers (of any lengths) share.
RECURSIVE Digest(_)
Digest(data) ==
    IF data = <<>> THEN 0
    ELSE Digest(SubSeq(data, 1, Len(data) - 1)) * (MaxByte + 2) + data[Len(data)] + 1

\* base64(Sha256(data)): the whole-file content hash of listing and client.
FileHash(data) == <<"sha256", Digest(data)>>

\* md4(block), cut to crypto_hash_size bytes.
StrongHash(block) == <<"md4", crypto_hash_size, Digest(block)>>

\* The rolling checksum of a block: a is the sum of (byte + CRC_MAGIC), b the
\* sum of the running values of a, both modulo 2^16.
RECURSIVE CrcA(_)
CrcA(block) ==
    IF block = <<>> THEN 0
    ELSE (CrcA(SubSeq(block, 1, Len(block) - 1)) + block[Len(block)] + CRC_MAGIC) % CrcModulus

RECURSIVE CrcB(_)
CrcB(block) ==
    IF block = <<>> THEN 0
    ELSE (CrcB(SubSeq(block, 1, Len(block) - 1)) + CrcA(block)) % CrcModulus

Crc(block) == <<CrcA(block), CrcB(block)>>

\* ------------------------------------------------------------ signature
Min(a, b) == IF a < b THEN a ELSE b

\* The number of blocks of a buffer: buf.chunks(block_size).len().
NumBlocks(data, bs) == (Len(data) + bs - 1) \div bs

\* Block i (from 0) of a buffer; the last one may be shorter.
BlockAt(data, bs, i) == SubSeq(data, i * bs + 1, Min((i + 1) * bs, Len(data)))

\* Signature::calculate: one (crc, strong hash) pair per block.
Calculate(data, bs) ==
    [crypto_hash_size |-> crypto_hash_size,
     block_size |-> bs,
     blocks |-> [i \in 1..NumBlocks(data, bs) |->
                    [crc |-> Crc(BlockAt(data, bs, i - 1)),
                     hash |-> StrongHash(BlockAt(data, bs, i - 1))]]]

\* Signature::serialize / Signature::deserialize: magic, block size, strong
\* hash size, then the blocks' (crc, hash) pairs in order.
SigMagic == "rs_md4_sig"

RECURSIVE FlattenBlocks(_)
FlattenBlocks(blocks) ==
    IF blocks = <<>> THEN <<>>
    ELSE <<blocks[1].crc, blocks[1].hash>> \o FlattenBlocks(Tail(blocks))

Serialize(sig) ==
    <<SigMagic, sig.block_size, sig.crypto_hash_size>> \o FlattenBlocks(sig.blocks)

RECURSIVE PairBlocks(_)
PairBlocks(flat) ==
    IF flat = <<>> THEN <<>>
    ELSE <<[crc |-> flat[1], hash |-> flat[2]]>> \o PairBlocks(SubSeq(flat, 3, Len(flat)))

\* Fails on a wrong magic, a missing header and a block table that is not a
\* whole number of (crc, hash) pairs.
Deserialize(sigb) ==
    IF Len(sigb) < 3 THEN Err
    ELSE IF sigb[1] # SigMagic THEN Err
    ELSE IF (Len(sigb) - 3) % 2 # 0 THEN Err
    ELSE Ok([crypto_hash_size |-> sigb[3],
             block_size |-> sigb[2],
             blocks |-> PairBlocks(SubSeq(sigb, 4, Len(sigb)))])

\* base64::encode / base64::decode: text over the base64 alphabet; decoding
\* any other text fails.
Base64Encode(bytes) == [alphabet |-> "base64", chars |-> bytes]
NotBase64 == [alphabet |-> "other", chars |-> <<>>]
Base64Decode(text) == IF text.alphabet = "base64" THEN Ok(text.chars) ELSE Err

\* ---------------------------------------------------------------- delta
Copy(off, len) == [off |-> off, len |-> len, op |-> "Copy"]
Literal(bytes) == [bytes |-> bytes, op |-> "Literal"]

\* IndexedSignature lookup: the block whose crc and strong hash are those of
\* the window.  index() inserts the blocks in order into a map keyed by
\* (crc, hash), so of several equal blocks the last one is kept.
Lookup(sig, window) ==
    LET hits == {i \in 1..Len(sig.blocks) :
                    /\ sig.blocks[i].crc = Crc(window)
                    /\ sig.blocks[i].hash = StrongHash(window)}
    IN  IF hits = {} THEN NoMatch
        ELSE (CHOOSE i \in hits : \A j \in hits : j <= i) - 1

NoCopy == <<>>

\* OutputState::emit: write the queued copy, then the literal bytes up to
\* `until` that no copy covers.  st = [emitted, queued, out].
Emit(st, until, data) ==
    IF st.emitted = until THEN st
    ELSE IF st.queued # NoCopy
    THEN LET after == st.emitted + st.queued[2]
         IN  [emitted |-> until,
              queued |-> NoCopy,
              out |-> st.out \o <<Copy(st.queued[1], st.queued[2])>>
                        \o (IF after < until
                            THEN <<Literal(SubSeq(data, after + 1, until))>>
                            ELSE <<>>)]
    ELSE [emitted |-> until,
          queued |-> NoCopy,
          out |-> Append(st.out, Literal(SubSeq(data, st.emitted + 1, until)))]

\* OutputState::copy: extend the queued copy when the new one continues it
\* in both the target and the source, else emit what is pending and queue it.
QueueCopy(st, off, len, here, data) ==
    IF /\ st.queued # NoCopy
       /\ st.emitted + st.queued[2] = here
       /\ st.queued[1] + st.queued[2] = off
    THEN [st EXCEPT !.queued = <<st.queued[1], st.queued[2] + len>>]
    ELSE [Emit(st, here, data) EXCEPT !.queued = <<off, len>>]

\* diff's scan: a window of block_size bytes at `here`; on a match copy the
\* block and jump past the window, else move one byte on.  What is left when
\* fewer than block_size bytes remain is emitted as literal bytes.
RECURSIVE DiffScan(_, _, _, _)
DiffScan(sig, data, here, st) ==
    LET bs == sig.block_size IN
    IF Len(data) - here < bs THEN Emit(st, Len(data), data).out
    ELSE LET idx == Lookup(sig, SubSeq(data, here + 1, here + bs))
         IN  IF idx # NoMatch
             THEN DiffScan(sig, data, here + bs,
                           QueueCopy(st, idx * bs, bs, here, data))
             ELSE DiffScan(sig, data, here + 1, st)

\* fast_rsync::diff(signature, data): the delta's commands.
Diff(sig, data) ==
    DiffScan(sig, data, 0, [emitted |-> 0, queued |-> NoCopy, out |-> <<>>])

\* fast_rsync::apply(base, delta): replay the commands over the base; a copy
\* that reaches past the end of the base fails the whole application.
RECURSIVE ApplyCmds(_, _, _)
ApplyCmds(base, cmds, out) ==
    IF cmds = <<>> THEN Ok(out)
    ELSE LET c == cmds[1] IN
         IF c.op = "Copy"
         THEN IF c.len = 0 \/ c.off + c.len > Len(base) THEN Err
              ELSE ApplyCmds(base, Tail(cmds),
                             out \o SubSeq(base, c.off + 1, c.off + c.len))
         ELSE ApplyCmds(base, Tail(cmds), out \o c.bytes)

\* A response body is either a delta (magic, commands, end) or other bytes,
\* such as the text of an error response; apply rejects what is no delta.
DeltaBody(cmds) == [text |-> "", cmds |-> cmds, kind |-> "delta", files |-> <<>>]
TextBody(text) == [text |-> text, cmds |-> <<>>, kind |-> "text", files |-> <<>>]
NoBody == [text |-> "", cmds |-> <<>>, kind |-> "none", files |-> <<>>]

Apply(base, body) ==
    IF body.kind # "delta" THEN Err ELSE ApplyCmds(base, body.cmds, <<>>)

\* ----------------------------------------------------------- file systems
\* A path's state in a file system: a regular file with its bytes, or nothing;
\* or a regular file that may not be read, a symbolic link to a regular file
\* with these bytes, a symbolic link to nothing, a directory.
File(bytes) == [bytes |-> bytes, kind |-> "file", exists |-> TRUE]
Absent == [bytes |-> <<>>, kind |-> "none", exists |-> FALSE]
Unreadable(bytes) == [bytes |-> bytes, kind |-> "unreadable", exists |-> TRUE]
Symlink(bytes) == [bytes |-> bytes, kind |-> "symlink", exists |-> TRUE]
Dangling == [bytes |-> <<>>, kind |-> "dangling", exists |-> TRUE]
Dir == [bytes |-> <<>>, kind |-> "dir", exists |-> TRUE]

\* std::fs::read: follows symbolic links.
FsRead(fs, path) ==
    IF fs[path].kind \in {"file", "symlink"} THEN Ok(fs[path].bytes) ELSE Err

\* Path::metadata: follows symbolic links; is_file of what is found.
Metadata(fs, path) ==
    IF fs[path].kind \in {"none", "dangling"} THEN Err
    ELSE Ok([is_file |-> fs[path].kind \in {"file", "unreadable", "symlink"}])

\* A panic unwinding out of a function.
Panic == [ok |-> FALSE, val |-> <<"panic">>]

\* The files under the root the server runs in and the client's work
\* directory, and a path that leaves the root through a ".." segment.
RootPaths == {"a", "d/b"}
OutsidePath == "../x"
Paths == RootPaths \cup {OutsidePath}
HasParentDir(path) == path = "d/b"
IsTraversal(path) == path = OutsidePath

\* ---------------------------------------------------------------- client
\* make_signature with the signature taken over data[1..], an off-by-one in
\* the slice.
make_signature_skip_first(data, block_size) ==
    Serialize(Calculate(IF data = <<>> THEN data ELSE Tail(data), block_size))

\* make_signature cutting the bytes into blocks one byte longer than the
\* block size asked for.
make_signature_wider(data, block_size) == Serialize(Calculate(data, block_size + 1))

\* make_signature hashing the remainder after the whole blocks even when it
\* is empty.
make_signature_trailing(data, block_size) ==
    LET sig == Calculate(data, block_size)
    IN  Serialize(IF Len(data) % block_size = 0
                  THEN [sig EXCEPT !.blocks = Append(@, [crc |-> Crc(<<>>),
                                                         hash |-> StrongHash(<<>>)])]
                  ELSE sig)

\* Client::make_signature: the serialized signature of the local bytes.
make_signature(data, block_size) == Serialize(Calculate(data, block_size))

\* ---------------------------------------------------------------- server
\* make_patch taking a signature it cannot decode for one with no blocks.
make_patch_default_signature(fs, file, sigb) ==
    LET data == FsRead(fs, file)
        sig == Deserialize(sigb)
        none == [crypto_hash_size |-> crypto_hash_size, block_size |-> 1, blocks |-> <<>>]
    IN  IF ~data.ok THEN Err
        ELSE Ok(DeltaBody(Diff(IF sig.ok THEN sig.val ELSE none, data.val)))

\* make_patch diffing against the signature's header alone, its block table
\* left behind.
make_patch_no_blocks(fs, file, sigb) ==
    LET data == FsRead(fs, file)
        sig == Deserialize(SubSeq(sigb, 1, Min(3, Len(sigb))))
    IN  IF ~data.ok THEN Err
        ELSE IF ~sig.ok THEN Err
        ELSE Ok(DeltaBody(Diff(sig.val, data.val)))

\* Server::make_patch: read the file, decode the signature, diff.
make_patch(fs, file, sigb) ==
    LET data == FsRead(fs, file)
        sig == Deserialize(sigb)
    IN  IF ~data.ok THEN Err
        ELSE IF ~sig.ok THEN Err
        ELSE Ok(DeltaBody(Diff(sig.val, data.val)))

\* Server::list_entry_for_file
list_entry_for_file(fs, path) ==
    LET data == FsRead(fs, path)
    IN  IF ~data.ok THEN Err
        ELSE Ok([hash |-> FileHash(data.val), path |-> path])

\* Server::list_entries: the directory walk yields what the directories
\* hold (symbolic links as such, not followed); the metadata of each is
\* unwrapped, and those that are files stay, as paths relative to the root.
WalkOrder == <<"a", "d/b">>
list_entries(fs) ==
    LET walked == SelectSeq(WalkOrder, LAMBDA p : fs[p].exists)
    IN  IF \E k \in DOMAIN walked : ~Metadata(fs, walked[k]).ok THEN Panic
        ELSE Ok(SelectSeq(walked, LAMBDA p : Metadata(fs, p).val.is_file))

\* Server::load_listing: an entry per listed file whose entry could be made.
RECURSIVE EntriesOf(_, _)
EntriesOf(fs, paths) ==
    IF paths = <<>> THEN <<>>
    ELSE LET e == list_entry_for_file(fs, paths[1])
         IN  (IF e.ok THEN <<e.val>> ELSE <<>>) \o EntriesOf(fs, Tail(paths))

load_listing(fs) ==
    LET paths == list_entries(fs)
    IN  IF ~paths.ok THEN Panic ELSE Ok([files |-> EntriesOf(fs, paths.val)])

\* A response: status, body, and the paths the handler read from disk.
Response(status, body, reads) == [body |-> body, status |-> status, reads |-> reads]
ListBody(listing) == [text |-> "", cmds |-> <<>>, kind |-> "listing", files |-> listing]

\* A PatchRequest as JSON, and a body that is no PatchRequest.
PatchRequest(file, sig) == [sig |-> sig, file |-> file, json |-> "PatchRequest"]
Malformed == [sig |-> NotBase64, file |-> "", json |-> "other"]

\* Server::route_patch: parse the request, decode the signature text, make
\* the patch for the path as given.  An error becomes, in Server::handler,
\* a 500 response with the error's text.
route_patch(fs, req_body) ==
    IF req_body.json # "PatchRequest" THEN Response(500, TextBody("Error"), {})
    ELSE LET sigb == Base64Decode(req_body.sig)
         IN  IF ~sigb.ok THEN Response(500, TextBody("Error"), {})
             ELSE LET patch == make_patch(fs, req_body.file, sigb.val)
                  IN  IF ~patch.ok
                      THEN Response(500, TextBody("Error"), {req_body.file})
                      ELSE Response(200, patch.val, {req_body.file})

\* Server::route_list
route_list(listing) == Response(200, ListBody(listing), {})

\* handler answering /list with a listing made anew from the disk as it is.
handler_relisting(fs, listing, method, uri, req_body) ==
    IF method = "GET" /\ uri = "/" THEN Response(200, TextBody("Hello there"), {})
    ELSE IF method = "GET" /\ uri = "/list" THEN route_list(load_listing(fs).val.files)
    ELSE IF method = "POST" /\ uri = "/patch" THEN route_patch(fs, req_body)
    ELSE Response(404, TextBody("Not found."), {})

\* Server::router with Server::handler
handler(fs, listing, method, uri, req_body) ==
    IF method = "GET" /\ uri = "/" THEN Response(200, TextBody("Hello there"), {})
    ELSE IF method = "GET" /\ uri = "/list" THEN route_list(listing)
    ELSE IF method = "POST" /\ uri = "/patch" THEN route_patch(fs, req_body)
    ELSE Response(404, TextBody("Not found."), {})

\* ======================================================================
\* The server process, and one client syncing its work directory from it.
\* ======================================================================
VARIABLES
    sfs,          \* the server's disk: path -> file state
    ctx_listing,  \* ServerContext.listing, built when the server starts
    changes,      \* how many times a server file changed since the start
    cfs,          \* the client's work directory: path -> file state
    cdir,         \* whether the work directory's subdirectory "d" exists
    bs,           \* SignatureOptions.block_size
    parallel,     \* whether the listing's files are synced by a task pool
    cpc,          \* Client::update: "start", "loop", "ok" or "err"
    clisting,     \* the listing the client fetched
    cur,          \* the loop's position in the listing
    task,         \* per listing entry: update_file's locals and progress
    runs,         \* how many times the client was run
    prev,         \* path -> its status in the previous run, its file as this run began
    srvReads,     \* the paths the server read from disk for patch requests
    extResp,      \* the server's response to the last request of another client
    extCount,     \* how many requests other clients made
    inflight,     \* per connection: the request the server is handling on it
    spc,          \* Server::run: "init", "serving", "returned" or "panicked"
    \* the delta pipeline on its own: buffers A and B, the block size, the
    \* stage reached, the signature sent, the patch received, the output
    dA, dB, dbs, dpc, dsig, dpatch, dout

deltaVars == <<dA, dB, dbs, dpc, dsig, dpatch, dout>>
sysVars == <<sfs, ctx_listing, changes, cfs, cdir, bs, parallel, cpc, clisting,
             cur, task, runs, prev, srvReads, extResp, extCount, inflight, spc>>
vars == <<sysVars, deltaVars>>

\* ------------------------------------------------------------- bounds
BlockSize == 1
MaxFileLen == 2
MaxChanges == 1
MaxRuns == 2
MaxExt == 2
MaxConns == 2

\* The contents tried for the file "a": any bytes on the server, zero bytes on
\* the client; the nested file "d/b" is missing or holds one byte.
ServerBuffers == SeqsUpTo(0..1, MaxFileLen)
ClientBuffers == SeqsUpTo({0}, MaxFileLen)
FileStates(buffers) == {Absent} \cup {File(b) : b \in buffers}
NestedFiles == {Absent, File(<<0>>)}
ChangedFiles == {Absent, File(<<1>>)}
SecretFile == File(<<1, 0>>)

NoHash == <<"none", 0>>
NoSig == [alphabet |-> "none", chars |-> <<>>]
\* A signature whose block table is cut short.
OddTable == Base64Encode(Append(make_signature(<<0>>, BlockSize), "half a block"))
NoResponse == Response(0, NoBody, {})

\* update_file's locals for one listing entry, before it starts.
NewTask ==
    [data |-> <<>>, status |-> "Unchecked", patch |-> NoBody, pc |-> "read",
     local_hash |-> NoHash, signature |-> NoSig, output |-> <<>>,
     before |-> Absent, dirBefore |-> FALSE, asked |-> FALSE, served |-> Absent,
     http |-> 0, steps |-> <<>>]


\* The connections of other clients, each with a request being handled or
\* none.
Conns == 1..MaxConns
Request(method, uri, body) == [body |-> body, method |-> method, uri |-> uri, stage |-> "pending"]
IdleConn == [body |-> Malformed, method |-> "", uri |-> "", stage |-> "idle"]

\* Server::run: the listing is loaded once, from the disk as it is then.
ServerStart(disk) ==
    /\ sfs = disk
    /\ load_listing(disk).ok
    /\ ctx_listing = load_listing(disk).val.files
    /\ spc = "serving"
    /\ changes = 0
    /\ srvReads = {}
    /\ extResp = NoResponse
    /\ extCount = 0
    /\ inflight = [c \in Conns |-> IdleConn]

\* Client::new: nothing fetched yet.
ClientStart ==
    /\ cpc = "start"
    /\ clisting = <<>>
    /\ cur = 1
    /\ task = <<>>
    /\ runs = 1
    /\ prev = [p \in RootPaths |-> [file |-> cfs[p], status |-> "none"]]

Disks ==
    {[p \in Paths |-> IF p = "a" THEN fa ELSE IF p = "d/b" THEN fb ELSE SecretFile] :
        fa \in FileStates(ServerBuffers), fb \in NestedFiles}

WorkDirs ==
    {[p \in RootPaths |-> IF p = "a" THEN fa ELSE fb] :
        fa \in FileStates(ClientBuffers), fb \in NestedFiles}

SysInit ==
    /\ \E disk \in Disks : ServerStart(disk)
    /\ cfs \in WorkDirs
    /\ cdir \in BOOLEAN
    /\ cfs["d/b"].exists => cdir
    /\ bs = BlockSize
    /\ ClientStart

\* ------------------------------------------------------- Client::update
Entry(i) == clisting[i]
Runnable(i, pc) ==
    /\ cpc = "loop"
    /\ i \in DOMAIN task
    /\ task[i].pc = pc
    /\ parallel \/ i = cur

Logged(t, step) == [t EXCEPT !.steps = Append(@, step)]

\* update_file returned for entry i, leaving its locals as t.  In
\* Client::update the `?` on its result ends the run at the first error, and
\* the loop moves to the next entry otherwise.  A task pool runs every entry.
LoopStep(i, failed) ==
    IF failed THEN cpc' = "err" /\ cur' = cur
    ELSE IF i = Len(clisting) THEN cpc' = "ok" /\ cur' = cur
    ELSE cpc' = "loop" /\ cur' = i + 1

\* The task pool: the run ends when the last task has ended, as an error if
\* any task failed.
PoolStep(i, failed) ==
    /\ cur' = cur
    /\ cpc' = IF \E j \in DOMAIN task \ {i} : task[j].pc # "done" THEN "loop"
              ELSE IF failed \/ \E j \in DOMAIN task \ {i} : task[j].status = "Failed"
                   THEN "err" ELSE "ok"

Finish(i, t, failed) ==
    /\ task' = [task EXCEPT ![i] = [t EXCEPT !.pc = "done"]]
    /\ IF parallel THEN PoolStep(i, failed) ELSE LoopStep(i, failed)

Fail(i, t) == Finish(i, [t EXCEPT !.status = "Failed"], TRUE)

Continue(i, t) == /\ task' = [task EXCEPT ![i] = t]
                  /\ UNCHANGED <<cpc, cur>>

serverVars == <<sfs, ctx_listing, changes, srvReads, extResp, extCount, inflight, spc>>
diskVars == <<cfs, cdir>>
constVars == <<bs, parallel, deltaVars>>
runVars == <<constVars, clisting, runs, prev>>

\* Client::fetch_listing and the start of the loop.
FetchListing ==
    /\ cpc = "start"
    /\ LET resp == handler(sfs, ctx_listing, "GET", "/list", Malformed)
       IN  /\ clisting' = resp.body.files
           /\ task' = [i \in 1..Len(resp.body.files) |-> NewTask]
           /\ cpc' = IF resp.body.files = <<>> THEN "ok" ELSE "loop"
    /\ cur' = 1
    /\ UNCHANGED <<serverVars, diskVars, constVars, runs, prev>>

\* The request for the listing fails: update returns the error.
FetchListingFail ==
    /\ cpc = "start"
    /\ cpc' = "err"
    /\ UNCHANGED <<serverVars, diskVars, runVars, cur, task>>

\* --------------------------------------------------- Client::update_file
\* Lines 95-98: the local bytes; a file that cannot be read counts as empty.
read_local(fs, path) ==
    LET r == FsRead(fs, path) IN IF r.ok THEN r.val ELSE <<>>

\* local_hash with the digest written in hex, not in the listing's base64.
local_hash_hex(data) == <<"sha256-hex", Digest(data)>>

\* Lines 100-104: base64 of the SHA-256 of the local bytes.
local_hash(data) == FileHash(data)

\* ReadLocal opening the file with create set: a missing file is left behind
\* empty.
ReadLocalCreating(i) ==
    /\ Runnable(i, "read")
    /\ Continue(i, Logged([task[i] EXCEPT !.data = read_local(cfs, Entry(i).path),
                                          !.before = cfs[Entry(i).path],
                                          !.dirBefore = cdir,
                                          !.pc = "hash"], "read"))
    /\ cfs' = [cfs EXCEPT ![Entry(i).path] = IF @.exists THEN @ ELSE File(<<>>)]
    /\ UNCHANGED <<serverVars, cdir, runVars>>

ReadLocal(i) ==
    /\ Runnable(i, "read")
    /\ Continue(i, Logged([task[i] EXCEPT !.data = read_local(cfs, Entry(i).path),
                                          !.before = cfs[Entry(i).path],
                                          !.dirBefore = cdir,
                                          !.pc = "hash"], "read"))
    /\ UNCHANGED <<serverVars, diskVars, runVars>>

\* HashCompare without the early return on equal hashes.
HashCompareNoReturn(i) ==
    /\ Runnable(i, "hash")
    /\ Continue(i, Logged([task[i] EXCEPT !.local_hash = local_hash(task[i].data),
                                          !.status = "HashCompared",
                                          !.pc = "sig"], "hash"))
    /\ UNCHANGED <<serverVars, diskVars, runVars>>

\* HashCompare going on to the patch request without a signature.
HashCompareSkipSignature(i) ==
    /\ Runnable(i, "hash")
    /\ LET h == local_hash(task[i].data)
           t == Logged([task[i] EXCEPT !.local_hash = h], "hash")
       IN  IF h = Entry(i).hash
           THEN Finish(i, [t EXCEPT !.status = "UpToDate"], FALSE)
           ELSE Continue(i, [t EXCEPT !.status = "HashCompared", !.pc = "fetch"])
    /\ UNCHANGED <<serverVars, diskVars, runVars>>

\* Lines 100-111: same hash as the listing's: nothing to do for this file.
HashCompare(i) ==
    /\ Runnable(i, "hash")
    /\ LET h == local_hash(task[i].data)
           t == Logged([task[i] EXCEPT !.local_hash = h], "hash")
       IN  IF h = Entry(i).hash
           THEN Finish(i, [t EXCEPT !.status = "UpToDate"], FALSE)
           ELSE Continue(i, [t EXCEPT !.status = "HashCompared", !.pc = "sig"])
    /\ UNCHANGED <<serverVars, diskVars, runVars>>

\* Lines 113-116
BuildSignature(i) ==
    /\ Runnable(i, "sig")
    /\ Continue(i, Logged([task[i] EXCEPT
                              !.signature = Base64Encode(make_signature(task[i].data, bs)),
                              !.status = "SignatureBuilt",
                              !.pc = "fetch"], "sig"))
    /\ UNCHANGED <<serverVars, diskVars, runVars>>

\* Lines 118-120 with Client::fetch_patch: the server handles the request and
\* the response's body, whatever its status, is taken as the patch.
FetchPatch(i) ==
    /\ Runnable(i, "fetch")
    /\ LET resp == handler(sfs, ctx_listing, "POST", "/patch",
                           PatchRequest(Entry(i).path, task[i].signature))
       IN  /\ Continue(i, Logged([task[i] EXCEPT !.patch = resp.body,
                                                 !.http = resp.status,
                                                 !.asked = TRUE,
                                                 !.served = sfs[Entry(i).path],
                                                 !.status = "PatchFetched",
                                                 !.pc = "apply"], "fetch"))
           /\ srvReads' = srvReads \cup resp.reads
    /\ UNCHANGED <<sfs, ctx_listing, changes, extResp, extCount, inflight, spc,
                   diskVars, runVars>>

\* The body that comes back is a well-formed delta, but not one made for the
\* bytes read (server_base may name a proxy or another server): it inserts
\* a byte and then copies a range longer than any local file.
MismatchedPatch == DeltaBody(<<Literal(<<1>>), Copy(0, MaxFileLen + 1)>>)

FetchPatchMismatched(i) ==
    /\ Runnable(i, "fetch")
    /\ Continue(i, Logged([task[i] EXCEPT !.patch = MismatchedPatch,
                                          !.http = 200,
                                          !.asked = TRUE,
                                          !.status = "PatchFetched",
                                          !.pc = "apply"], "fetch"))
    /\ UNCHANGED <<serverVars, diskVars, runVars>>

\* What reaches the server is not the request as sent, or not at the route
\* meant (server_base with a path of its own, a proxy in between): the server
\* answers with one of its error responses, whose body is taken as the patch.
ErrorAnswers(fs, listing, path) ==
    {handler(fs, listing, "POST", "/patch", PatchRequest(path, NotBase64)),
     handler(fs, listing, "POST", "/patch", PatchRequest(path, OddTable)),
     handler(fs, listing, "POST", "/patch", Malformed),
     handler(fs, listing, "POST", "/base/patch", Malformed)}

FetchPatchErrorAnswer(i) ==
    /\ Runnable(i, "fetch")
    /\ \E resp \in ErrorAnswers(sfs, ctx_listing, Entry(i).path) :
          /\ Continue(i, Logged([task[i] EXCEPT !.patch = resp.body,
                                                !.http = resp.status,
                                                !.asked = TRUE,
                                                !.served = sfs[Entry(i).path],
                                                !.status = "PatchFetched",
                                                !.pc = "apply"], "fetch"))
          /\ srvReads' = srvReads \cup resp.reads
    /\ UNCHANGED <<sfs, ctx_listing, changes, extResp, extCount, inflight, spc,
                   diskVars, runVars>>

\* The request or the reading of its response fails.
FetchPatchFail(i) ==
    /\ Runnable(i, "fetch")
    /\ Fail(i, Logged([task[i] EXCEPT !.asked = TRUE], "fetch"))
    /\ UNCHANGED <<serverVars, diskVars, runVars>>

\* ApplyPatch with apply's error dropped: the update goes on with whatever
\* the output vector holds.
ApplyPatchIgnoreError(i) ==
    /\ Runnable(i, "apply")
    /\ LET r == Apply(task[i].data, task[i].patch)
           t == Logged(task[i], "apply")
       IN  Continue(i, [t EXCEPT !.output = IF r.ok THEN r.val ELSE <<>>, !.pc = "mkdir"])
    /\ UNCHANGED <<serverVars, diskVars, runVars>>

\* ApplyPatch with the file itself, opened for writing, as apply's output:
\* a failed application leaves it truncated.
ApplyPatchIntoFile(i) ==
    /\ Runnable(i, "apply")
    /\ LET r == Apply(task[i].data, task[i].patch)
           t == Logged(task[i], "apply")
       IN  IF r.ok
           THEN Continue(i, [t EXCEPT !.output = r.val, !.pc = "mkdir"]) /\ cfs' = cfs
           ELSE Fail(i, t) /\ cfs' = [cfs EXCEPT ![Entry(i).path] = File(<<>>)]
    /\ UNCHANGED <<serverVars, cdir, runVars>>

\* Lines 122-125: the patch applied in memory to the bytes read.
ApplyPatch(i) ==
    /\ Runnable(i, "apply")
    /\ LET r == Apply(task[i].data, task[i].patch)
           t == Logged(task[i], "apply")
       IN  IF r.ok
           THEN Continue(i, [t EXCEPT !.output = r.val, !.pc = "mkdir"])
           ELSE Fail(i, t)
    /\ UNCHANGED <<serverVars, diskVars, runVars>>

\* Line 128: create_dir_all on the parent of the file's path.
CreateDirs(i) ==
    /\ Runnable(i, "mkdir")
    /\ cdir' = (cdir \/ HasParentDir(Entry(i).path))
    /\ Continue(i, Logged([task[i] EXCEPT !.pc = "write"], "mkdir"))
    /\ UNCHANGED <<serverVars, cfs, runVars>>

CreateDirsFail(i) ==
    /\ Runnable(i, "mkdir")
    /\ Fail(i, Logged(task[i], "mkdir"))
    /\ UNCHANGED <<serverVars, diskVars, runVars>>

\* WriteFile with the file opened for appending: the new bytes follow the old.
WriteFileAppend(i) ==
    /\ Runnable(i, "write")
    /\ HasParentDir(Entry(i).path) => cdir
    /\ cfs' = [cfs EXCEPT ![Entry(i).path] = File(cfs[Entry(i).path].bytes \o task[i].output)]
    /\ Finish(i, Logged([task[i] EXCEPT !.status = "Applied"], "write"), FALSE)
    /\ UNCHANGED <<serverVars, cdir, runVars>>

\* WriteFile writing the bytes read (data) where the patched bytes (output)
\* are meant.
WriteFileOriginal(i) ==
    /\ Runnable(i, "write")
    /\ HasParentDir(Entry(i).path) => cdir
    /\ cfs' = [cfs EXCEPT ![Entry(i).path] = File(task[i].data)]
    /\ Finish(i, Logged([task[i] EXCEPT !.status = "Applied"], "write"), FALSE)
    /\ UNCHANGED <<serverVars, cdir, runVars>>

\* Lines 129-138: the new bytes replace the file.
WriteFile(i) ==
    /\ Runnable(i, "write")
    /\ HasParentDir(Entry(i).path) => cdir
    /\ cfs' = [cfs EXCEPT ![Entry(i).path] = File(task[i].output)]
    /\ Finish(i, Logged([task[i] EXCEPT !.status = "Applied"], "write"), FALSE)
    /\ UNCHANGED <<serverVars, cdir, runVars>>

\* std::fs::write fails: before the file is opened, or after it was
\* truncated and only the first k bytes were written.
WriteFileFail(i) ==
    /\ Runnable(i, "write")
    /\ \/ cfs' = cfs
       \/ \E k \in 0..(Len(task[i].output) - 1) :
             cfs' = [cfs EXCEPT ![Entry(i).path] = File(SubSeq(task[i].output, 1, k))]
    /\ Fail(i, Logged(task[i], "write"))
    /\ UNCHANGED <<serverVars, cdir, runVars>>

\* The client is run again (Client::run, from main).
Rerun ==
    /\ cpc \in {"ok", "err"}
    /\ runs < MaxRuns
    /\ runs' = runs + 1
    /\ prev' = [p \in RootPaths |->
                  IF \E i \in DOMAIN task : Entry(i).path = p
                  THEN LET i == CHOOSE j \in DOMAIN task : Entry(j).path = p
                       IN  [file |-> cfs[p], status |-> task[i].status]
                  ELSE [file |-> cfs[p], status |-> "none"]]
    /\ cpc' = "start"
    /\ clisting' = <<>>
    /\ cur' = 1
    /\ task' = <<>>
    /\ UNCHANGED <<serverVars, diskVars, constVars>>

\* ------------------------------------------------------------ environment
\* A file under the server's root is replaced or removed while it runs.
ServerFileChange(p, f) ==
    /\ changes < MaxChanges
    /\ f # sfs[p]
    /\ sfs' = [sfs EXCEPT ![p] = f]
    /\ changes' = changes + 1
    /\ UNCHANGED <<ctx_listing, srvReads, extResp, extCount, inflight, spc,
                   diskVars, runVars, cpc, cur, task>>

\* What other clients send as the signature of a patch request.
ExtSigs == {NotBase64, OddTable, Base64Encode(make_signature(<<0>>, bs))}
ExtBodies == {Malformed} \cup {PatchRequest(p, g) : p \in Paths, g \in ExtSigs}

\* The requests tried: the routes without a body, and a patch request with
\* each body.
ExtRequests ==
    {Request("GET", "/", Malformed), Request("GET", "/list", Malformed),
     Request("GET", "/patch", Malformed)}
        \cup {Request("POST", "/patch", body) : body \in ExtBodies}

\* A request arrives on a connection: its service is spawned (Server::run).
\* Connections are alike, so the first idle one stands for any of them.
AcceptRequest(c, req) ==
    /\ spc = "serving"
    /\ extCount < MaxExt
    /\ inflight[c] = IdleConn
    /\ \A o \in Conns : o < c => inflight[o] # IdleConn
    /\ inflight' = [inflight EXCEPT ![c] = req]
    /\ extCount' = extCount + 1
    /\ UNCHANGED <<sfs, ctx_listing, changes, srvReads, extResp, spc, diskVars,
                   runVars, cpc, cur, task>>

\* Server::handler runs for the request of a connection and responds; the
\* requests of other connections may have arrived before or since.
Respond(c) ==
    /\ inflight[c] # IdleConn
    /\ LET req == inflight[c]
           resp == handler(sfs, ctx_listing, req.method, req.uri, req.body)
       IN  /\ extResp' = resp
           /\ srvReads' = srvReads \cup resp.reads
    /\ inflight' = [inflight EXCEPT ![c] = IdleConn]
    /\ UNCHANGED <<sfs, ctx_listing, changes, extCount, spc, diskVars, runVars,
                   cpc, cur, task>>

\* ======================================================================
\* The delta pipeline on its own: a signature of A, a delta towards B, the
\* delta applied to A.
\* ======================================================================

\* The pipeline's variables while the system runs, and the reverse.
DeltaIdle ==
    /\ dA = <<>> /\ dB = <<>> /\ dbs = 1
    /\ dpc = "idle" /\ dsig = NoSig /\ dpatch = NoBody /\ dout = Err

SysIdle ==
    /\ ServerStart([p \in Paths |-> Absent])
    /\ cfs = [p \in RootPaths |-> Absent]
    /\ cdir = FALSE
    /\ bs = BlockSize
    /\ parallel = FALSE
    /\ ClientStart

TargetFile == "a"

\* Buffers one byte longer, over two byte values: two blocks of two bytes.
LongBuffers == {b \in SeqsUpTo(0..1, MaxLen + 1) : Len(b) = MaxLen + 1}
DeltaBuffers == Buffers \cup LongBuffers

DeltaInit ==
    /\ dA \in DeltaBuffers
    /\ dB \in DeltaBuffers
    /\ dbs \in 1..MaxBlockSize
    /\ dpc = "start"
    /\ dsig = NoSig
    /\ dpatch = NoBody
    /\ dout = Err
    /\ SysIdle

\* Client::update_file, lines 113-116: the signature of A, as sent.
DeltaSign ==
    /\ dpc = "start"
    /\ dsig' = Base64Encode(make_signature(dA, dbs))
    /\ dpc' = "signed"
    /\ UNCHANGED <<dA, dB, dbs, dpatch, dout, sysVars>>

\* Server::route_patch on that signature, the server's file holding B.
DeltaDiff ==
    /\ dpc = "signed"
    /\ dpatch' = route_patch([p \in Paths |-> IF p = TargetFile THEN File(dB) ELSE Absent],
                             PatchRequest(TargetFile, dsig)).body
    /\ dpc' = "diffed"
    /\ UNCHANGED <<dA, dB, dbs, dsig, dout, sysVars>>

\* DeltaApply with the output vector starting as a copy of the bytes read:
\* apply appends to it.
DeltaApplyAppending ==
    /\ dpc = "diffed"
    /\ dout' = LET r == Apply(dA, dpatch) IN IF r.ok THEN Ok(dA \o r.val) ELSE Err
    /\ dpc' = "applied"
    /\ UNCHANGED <<dA, dB, dbs, dsig, dpatch, sysVars>>

\* Client::update_file, lines 122-125: the delta applied to A.
DeltaApply ==
    /\ dpc = "diffed"
    /\ dout' = Apply(dA, dpatch)
    /\ dpc' = "applied"
    /\ UNCHANGED <<dA, dB, dbs, dsig, dpatch, sysVars>>

DeltaNext == DeltaSign \/ DeltaDiff \/ DeltaApply

SpecDelta == DeltaInit /\ [][DeltaNext]_vars

\* ======================================================================
\* Specifications
\* ======================================================================
Tasks == 1..Cardinality(RootPaths)

\* Client::update as a function of the work directory, the listing and the
\* server's disk, when no request and no disk operation of the client fails:
\* update_file per entry, in order, up to the first error.
update_file(fs, entry, disk, block_size) ==
    LET data == read_local(fs, entry.path)
        resp == handler(disk, <<>>, "POST", "/patch",
                        PatchRequest(entry.path, Base64Encode(make_signature(data, block_size))))
        out == Apply(data, resp.body)
    IN  IF local_hash(data) = entry.hash THEN Ok(fs)
        ELSE IF ~out.ok THEN Err
        ELSE Ok([fs EXCEPT ![entry.path] = File(out.val)])

RECURSIVE update(_, _, _, _)
update(fs, listing, disk, block_size) ==
    IF listing = <<>> THEN fs
    ELSE LET r == update_file(fs, listing[1], disk, block_size)
         IN  IF ~r.ok THEN fs
             ELSE update(r.val, Tail(listing), disk, block_size)

\* One client run after another against the running server.
Init == SysInit /\ parallel = FALSE /\ DeltaIdle

Next ==
    \/ FetchListing
    \/ FetchListingFail
    \/ \E i \in Tasks : ReadLocal(i)
    \/ \E i \in Tasks : HashCompare(i)
    \/ \E i \in Tasks : BuildSignature(i)
    \/ \E i \in Tasks : FetchPatch(i)
    \/ \E i \in Tasks : FetchPatchMismatched(i)
    \/ \E i \in Tasks : FetchPatchErrorAnswer(i)
    \/ \E i \in Tasks : FetchPatchFail(i)
    \/ \E i \in Tasks : ApplyPatch(i)
    \/ \E i \in Tasks : CreateDirs(i)
    \/ \E i \in Tasks : CreateDirsFail(i)
    \/ \E i \in Tasks : WriteFile(i)
    \/ \E i \in Tasks : WriteFileFail(i)
    \/ Rerun
    \/ \E p \in RootPaths, f \in ChangedFiles : ServerFileChange(p, f)

Spec == Init /\ [][Next]_vars

\* The listing's files synced by a pool of tasks, one per entry, their steps
\* interleaved; the server's files may have changed since it started, but do
\* not change during the run, and no request or disk operation fails.
ParInit == SysInit /\ parallel = TRUE /\ DeltaIdle

ServerFileChangeBeforeRun(p, f) == cpc = "start" /\ ServerFileChange(p, f)

ParNext ==
    \/ FetchListing
    \/ \E i \in Tasks : ReadLocal(i)
    \/ \E i \in Tasks : HashCompare(i)
    \/ \E i \in Tasks : BuildSignature(i)
    \/ \E i \in Tasks : FetchPatch(i)
    \/ \E i \in Tasks : ApplyPatch(i)
    \/ \E i \in Tasks : CreateDirs(i)
    \/ \E i \in Tasks : WriteFile(i)
    \/ \E p \in RootPaths, f \in ChangedFiles : ServerFileChangeBeforeRun(p, f)

SpecPar == ParInit /\ [][ParNext]_vars

\* The server on its own, serving whatever requests reach it.
ServedDisks == {disk \in Disks : disk["a"] \in {Absent, File(<<0>>), File(<<0, 1>>)}}

ServerInit ==
    /\ \E disk \in ServedDisks : ServerStart(disk)
    /\ cfs = [p \in RootPaths |-> Absent]
    /\ cdir = FALSE
    /\ bs = BlockSize
    /\ parallel = FALSE
    /\ ClientStart
    /\ DeltaIdle

ServerNext ==
    \/ \E c \in Conns, req \in ExtRequests : AcceptRequest(c, req)
    \/ \E c \in Conns : Respond(c)
    \/ \E p \in RootPaths, f \in ChangedFiles : ServerFileChange(p, f)

SpecServer == ServerInit /\ [][ServerNext]_vars

\* The server starting in a directory that holds, besides regular files,
\* files it may not read, symbolic links and directories.
SpecialFiles == {Unreadable(<<0>>), Symlink(<<1>>), Dangling, Dir}

ListingDisks ==
    {[p \in Paths |-> IF p = "a" THEN fa ELSE IF p = "d/b" THEN fb ELSE SecretFile] :
        fa \in FileStates(ServerBuffers) \cup SpecialFiles,
        fb \in NestedFiles \cup SpecialFiles}

ListingInit ==
    /\ sfs \in ListingDisks
    /\ ctx_listing = <<>>
    /\ spc = "init"
    /\ changes = 0
    /\ srvReads = {}
    /\ extResp = NoResponse
    /\ extCount = 0
    /\ inflight = [c \in Conns |-> IdleConn]
    /\ cfs = [p \in RootPaths |-> Absent]
    /\ cdir = FALSE
    /\ bs = BlockSize
    /\ parallel = FALSE
    /\ ClientStart
    /\ DeltaIdle

\* Server::run, lines 36-50: the listing is loaded and put in the context the
\* services share; a panic in load_listing ends the process.
ServerRun ==
    /\ spc = "init"
    /\ LET l == load_listing(sfs)
       IN  IF l.ok THEN ctx_listing' = l.val.files /\ spc' = "serving"
           ELSE ctx_listing' = ctx_listing /\ spc' = "panicked"
    /\ UNCHANGED <<sfs, changes, srvReads, extResp, extCount, inflight, diskVars,
                   runVars, cpc, cur, task>>

ListingNext ==
    \/ ServerRun
    \/ \E c \in Conns : AcceptRequest(c, Request("GET", "/list", Malformed))
    \/ \E c \in Conns : Respond(c)

SpecListing == ListingInit /\ [][ListingNext]_vars

\* ======================================================================
\* Properties
\* ======================================================================
Steps(i) == task[i].steps
Did(i, step) == \E k \in DOMAIN Steps(i) : Steps(i)[k] = step
LastStep(i) == IF Steps(i) = <<>> THEN "none" ELSE Steps(i)[Len(Steps(i))]
Terminal == {"UpToDate", "Applied", "Failed"}
HasOp(cmds, op) == \E k \in DOMAIN cmds : cmds[k].op = op
SentSignature == Deserialize(Base64Decode(dsig).val).val

\* C1: applying the delta computed from the signature of A and the target B
\* to A yields exactly B, whatever A, B and the block size.
RoundTrip == dpc = "applied" => (dout.ok /\ dout.val = dB)

\* C1's case: a round trip over different buffers, A not a whole number of
\* blocks, whose delta both copies from A and inserts literal bytes.
RoundTripWitness ==
    /\ dpc = "applied"
    /\ dA # dB
    /\ Len(dA) % dbs # 0
    /\ HasOp(dpatch.cmds, "Copy")
    /\ HasOp(dpatch.cmds, "Literal")

\* C9 as stated: the signature of an empty buffer has no blocks, and the
\* delta towards any B is one Insert of all of B.
EmptySourceSingleInsert ==
    (dpc \in {"diffed", "applied"} /\ dA = <<>>) =>
        /\ SentSignature.blocks = <<>>
        /\ dpatch.cmds = <<Literal(dB)>>

\* C9, amended: the signature of an empty buffer has no blocks; the delta
\* towards a non-empty B is one Insert of all of B, and the delta towards an
\* empty B has no instruction at all.
EmptySource ==
    (dpc \in {"diffed", "applied"} /\ dA = <<>>) =>
        /\ SentSignature.blocks = <<>>
        /\ dB # <<>> => dpatch.cmds = <<Literal(dB)>>
        /\ dB = <<>> => dpatch.cmds = <<>>

\* C9's case: the delta from an empty A to a B of several blocks.
EmptySourceWitness ==
    /\ dpc = "diffed"
    /\ dA = <<>>
    /\ Len(dB) > dbs
    /\ dpatch.kind = "delta"

\* C2 as stated: a run that ended has brought every file of the listing to
\* a terminal state, whichever files failed.
FailuresIsolated ==
    cpc \in {"ok", "err"} =>
        \A i \in DOMAIN task : task[i].status \in Terminal

\* C3 as stated: no file is read for a patch request whose path has a ".."
\* segment, and the client takes no step for such a listing entry.
PathSafety ==
    /\ \A p \in srvReads : ~IsTraversal(p)
    /\ \A i \in DOMAIN task : IsTraversal(Entry(i).path) => Steps(i) = <<>>

\* C4: when the local bytes hash to the listing's hash, the file's update
\* ends UpToDate with no patch request, no directory creation and no write,
\* and the file is as it was.
NoOpSync ==
    \A i \in DOMAIN task :
        task[i].local_hash = Entry(i).hash =>
            /\ task[i].status = "UpToDate"
            /\ task[i].pc = "done"
            /\ ~task[i].asked
            /\ Steps(i) = <<"read", "hash">>
            /\ cfs[Entry(i).path] = task[i].before

NoOpSyncWitness ==
    \E i \in DOMAIN task :
        /\ task[i].status = "UpToDate"
        /\ task[i].before.exists
        /\ task[i].before.bytes # <<>>

\* C5: when applying the patch fails, the file's update has failed, nothing
\* was created or written for it, and the local file is as it was.
NoPartialOutput ==
    \A i \in DOMAIN task :
        (Did(i, "apply") /\ ~Apply(task[i].data, task[i].patch).ok) =>
            /\ task[i].status = "Failed"
            /\ LastStep(i) = "apply"
            /\ cfs[Entry(i).path] = task[i].before
            /\ cdir = task[i].dirBefore

\* C5's case: a copy past the end of the bytes read, after an insert that
\* had already produced output.
NoPartialOutputWitness ==
    \E i \in DOMAIN task :
        /\ task[i].status = "Failed"
        /\ LastStep(i) = "apply"
        /\ task[i].before.exists
        /\ task[i].before.bytes # <<>>
        /\ HasOp(task[i].patch.cmds, "Copy")
        /\ HasOp(task[i].patch.cmds, "Literal")

\* C6 as stated: the files of a listing synced in parallel end, under every
\* interleaving, with the bytes that syncing them one after the other
\* (Client::update) leaves.
ParallelAsSequential ==
    (parallel /\ cpc \in {"ok", "err"}) =>
        cfs = update([p \in RootPaths |-> prev[p].file], clisting, sfs, bs)

\* C7: a file's steps are taken in the order read, hash, signature, patch
\* request, apply, create directories, write; the patch is requested only
\* after the hashes differed, with the signature of the bytes read, and is
\* applied to those bytes; directories are created and the file written only
\* after the whole patch was applied in memory; and the update ends in
\* exactly one of UpToDate, Applied and Failed.
AllSteps == <<"read", "hash", "sig", "fetch", "apply", "mkdir", "write">>

StepOrder ==
    \A i \in DOMAIN task :
        /\ Len(Steps(i)) <= Len(AllSteps)
        /\ Steps(i) = SubSeq(AllSteps, 1, Len(Steps(i)))
        /\ Did(i, "sig") =>
              /\ task[i].local_hash = local_hash(task[i].data)
              /\ task[i].local_hash # Entry(i).hash
              /\ task[i].signature = Base64Encode(make_signature(task[i].data, bs))
        /\ Did(i, "fetch") <=> task[i].asked
        /\ Did(i, "mkdir") =>
              /\ Apply(task[i].data, task[i].patch).ok
              /\ task[i].output = Apply(task[i].data, task[i].patch).val
        /\ task[i].status = "Applied" =>
              /\ Steps(i) = AllSteps
              /\ cfs[Entry(i).path] = File(task[i].output)
        /\ task[i].status = "UpToDate" => Steps(i) = <<"read", "hash">>
        /\ (Did(i, "read") /\ ~Did(i, "write")) => cfs[Entry(i).path] = task[i].before
        /\ task[i].pc = "done" <=> task[i].status \in Terminal

StepOrderWitness ==
    \E i \in DOMAIN task :
        /\ task[i].status = "Applied"
        /\ HasOp(task[i].patch.cmds, "Copy")
        /\ \E j \in DOMAIN task : task[j].status = "UpToDate"

\* C8: while the server's files do not change, a second run for a file that
\* the run before it left UpToDate or Applied asks for no patch, writes
\* nothing, ends UpToDate and leaves the file's bytes as they were.
Idempotent ==
    \A i \in DOMAIN task :
        (/\ runs > 1
         /\ changes = 0
         /\ prev[Entry(i).path].status \in {"UpToDate", "Applied"}) =>
            /\ ~task[i].asked
            /\ ~Did(i, "write")
            /\ task[i].pc = "done" => task[i].status = "UpToDate"
            /\ cfs[Entry(i).path] = prev[Entry(i).path].file

IdempotentWitness ==
    \E i \in DOMAIN task :
        /\ runs > 1
        /\ changes = 0
        /\ prev[Entry(i).path].status = "Applied"
        /\ task[i].status = "UpToDate"

\* C10: a listed file that is missing locally is read as empty bytes, and
\* once its update has ended Applied the file exists, under its parent
\* directory, with exactly the bytes the server read for the request.
MissingLocalFile ==
    \A i \in DOMAIN task :
        (Did(i, "read") /\ ~task[i].before.exists) =>
            /\ task[i].data = <<>>
            /\ task[i].status = "Applied" =>
                  /\ task[i].served.exists
                  /\ cfs[Entry(i).path] = File(task[i].served.bytes)
                  /\ HasParentDir(Entry(i).path) => cdir

MissingLocalFileWitness ==
    \E i \in DOMAIN task :
        /\ ~task[i].before.exists
        /\ ~task[i].dirBefore
        /\ HasParentDir(Entry(i).path)
        /\ task[i].status = "Applied"
        /\ task[i].served.bytes # <<>>

\* C11: for a buffer A of a whole number of blocks, the delta from the
\* signature of A towards A itself has only Copy instructions, and applied
\* to A gives A.
Identity ==
    (dpc \in {"diffed", "applied"} /\ dA = dB /\ Len(dA) % dbs = 0) =>
        /\ dpatch.kind = "delta"
        /\ \A k \in DOMAIN dpatch.cmds : dpatch.cmds[k].op = "Copy"
        /\ Apply(dA, dpatch) = Ok(dA)

\* C11's case: A of several blocks, two of them equal, after the delta was
\* applied.
IdentityWitness ==
    /\ dpc = "applied"
    /\ dA = dB
    /\ Len(dA) = 3 * dbs
    /\ dA[1] = dA[3]
    /\ dA[1] # dA[2]

CmdLen(c) == IF c.op = "Copy" THEN c.len ELSE Len(c.bytes)

\* The number of target bytes the first k instructions produce.
RECURSIVE Produced(_, _)
Produced(cmds, k) == IF k = 0 THEN 0 ELSE Produced(cmds, k - 1) + CmdLen(cmds[k])

\* The places where an Insert and a Copy meet.
Boundaries(cmds) == Cardinality({k \in 1..(Len(cmds) - 1) : cmds[k].op # cmds[k + 1].op})

\* A has two blocks and B is A with one byte of the first block altered.
SingleByteAltered ==
    /\ dpc \in {"diffed", "applied"}
    /\ Len(dA) = 2 * dbs
    /\ Len(dB) = Len(dA)
    /\ Cardinality({k \in DOMAIN dA : dA[k] # dB[k]}) = 1
    /\ \A k \in DOMAIN dA : dA[k] # dB[k] => k <= dbs

\* One Insert/Copy boundary, the literal bytes within the first block, the
\* second block copied.
LocalizedDelta ==
    LET cmds == dpatch.cmds IN
    /\ dpatch.kind = "delta"
    /\ Boundaries(cmds) = 1
    /\ \A k \in DOMAIN cmds : cmds[k].op = "Literal" => Produced(cmds, k) <= dbs
    /\ \E k \in DOMAIN cmds : /\ cmds[k].op = "Copy"
                               /\ Produced(cmds, k - 1) <= dbs
                               /\ Produced(cmds, k) = 2 * dbs

\* No window of B that starts inside the first block is found in the
\* signature of A.
NoEarlyMatch ==
    \A h \in 0..(dbs - 1) : Lookup(SentSignature, SubSeq(dB, h + 1, h + dbs)) = NoMatch

\* C12 as stated: for A of two blocks and B equal to A but for one byte of
\* the first block, the delta has exactly one Insert/Copy boundary, its
\* literal bytes lie within the first block, and the second block is copied.
SingleByteChangeAlways == SingleByteAltered => LocalizedDelta

\* C12, amended: the same, provided no block-size window of B that starts
\* inside the first block is found in the signature of A.
SingleByteChange == (SingleByteAltered /\ NoEarlyMatch) => LocalizedDelta

\* C12's case: blocks of two bytes, the second byte of the first altered.
SingleByteChangeWitness ==
    /\ SingleByteAltered
    /\ NoEarlyMatch
    /\ dbs = 2
    /\ dA[2] # dB[2]
    /\ dpc = "applied"

\* C13: every Copy of a delta made from the signature of A starts at a
\* block boundary of A and ends within A, and the output of applying the
\* delta to A is as long as the instructions' lengths together, which is the
\* length of B.
DeltaWellFormed ==
    LET cmds == dpatch.cmds IN
    /\ dpc \in {"diffed", "applied"} =>
          /\ dpatch.kind = "delta"
          /\ \A k \in DOMAIN cmds :
                cmds[k].op = "Copy" =>
                    /\ cmds[k].off % dbs = 0
                    /\ cmds[k].len > 0
                    /\ cmds[k].off + cmds[k].len <= Len(dA)
          /\ Produced(cmds, Len(cmds)) = Len(dB)
    /\ dpc = "applied" =>
          /\ dout.ok
          /\ Len(dout.val) = Produced(cmds, Len(cmds))

\* C13's case: A ends in a short block and B is A: the whole blocks are
\* copied, and the short one, though in the signature, leaves as literal bytes.
DeltaWellFormedWitness ==
    /\ dpc = "applied"
    /\ dA = dB
    /\ Len(dA) % dbs # 0
    /\ Len(SentSignature.blocks) = 2
    /\ dpatch.cmds = <<Copy(0, dbs), Literal(SubSeq(dB, dbs + 1, Len(dB)))>>

\* C14: the listing built when the server started never changes; whichever
\* requests are being handled, and whatever became of the files since, every
\* list response carries that listing; and handling a request changes neither
\* the listing, nor the disk, nor the request of another connection.
ListingSnapshot ==
    [][/\ ctx_listing' = ctx_listing
       /\ extResp'.body.kind = "listing" => extResp'.body.files = ctx_listing
       /\ \A c \in Conns :
             (inflight[c] # IdleConn /\ inflight'[c] = IdleConn) =>
                 /\ sfs' = sfs
                 /\ \A o \in Conns \ {c} : inflight'[o] = inflight[o]]_vars

\* C14's case: a list response given while a patch request is being handled
\* on another connection, after a listed file changed.
ListingSnapshotWitness ==
    /\ extResp.body.kind = "listing"
    /\ extResp.body.files # <<>>
    /\ extResp.body.files # load_listing(sfs).val.files
    /\ \E c \in Conns : inflight[c].stage = "pending" /\ inflight[c].uri = "/patch"

\* The paths of the listing's entries.
ListedPaths == {ctx_listing[k].path : k \in DOMAIN ctx_listing}

\* C15 as stated: building the listing never aborts over one entry: what
\* cannot be read or inspected is skipped, and every regular file under the
\* root that can be read has its entry.
TolerantIndexing ==
    /\ spc # "panicked"
    /\ spc = "serving" =>
          \A p \in RootPaths : sfs[p].kind = "file" => p \in ListedPaths

\* C16 as stated: the listing has exactly one entry per readable regular
\* file under the root and none for anything else; the entries' paths are
\* unique, and each hash is the content hash of the file's bytes.
ListingContents ==
    spc = "serving" =>
        /\ ListedPaths = {p \in RootPaths : sfs[p].kind = "file"}
        /\ \A j, k \in DOMAIN ctx_listing :
              ctx_listing[j].path = ctx_listing[k].path => j = k
        /\ \A k \in DOMAIN ctx_listing :
              ctx_listing[k].hash = FileHash(sfs[ctx_listing[k].path].bytes)

\* A patch request whose signature text is not base64, or decodes to bytes
\* that are no signature.
CorruptSignature(req) ==
    /\ req.stage = "pending"
    /\ req.method = "POST"
    /\ req.uri = "/patch"
    /\ req.body.json = "PatchRequest"
    /\ \/ ~Base64Decode(req.body.sig).ok
       \/ ~Deserialize(Base64Decode(req.body.sig).val).ok

\* C17: a patch request whose signature cannot be decoded is answered with
\* an error and no patch; the listing, the disk and the requests of other
\* connections are as before, and the server goes on serving.
CorruptSignatureHandled ==
    [][\A c \in Conns :
          (CorruptSignature(inflight[c]) /\ inflight'[c] = IdleConn) =>
              /\ extResp'.status = 500
              /\ extResp'.body.kind = "text"
              /\ ctx_listing' = ctx_listing
              /\ sfs' = sfs
              /\ spc' = "serving"
              /\ \A o \in Conns \ {c} : inflight'[o] = inflight[o]]_vars

\* C17's case: a request for a file that is there, with a signature whose
\* block table is cut short, was answered, and another request waits.
CorruptSignatureWitness ==
    /\ extResp.status = 500
    /\ changes = 0
    /\ \E p \in RootPaths : extResp.reads = {p} /\ FsRead(sfs, p).ok
    /\ \E c \in Conns : inflight[c].stage = "pending" /\ inflight[c].body.sig = OddTable

\* C18: when the answer to a file's patch request is an error response of
\* the server, its body is taken as the patch, applying it fails, the file's
\* update ends Failed, and nothing is created or written: the local file is
\* as it was read.
ErrorResponseLeavesFile ==
    \A i \in DOMAIN task :
        task[i].http \in {404, 500} =>
            /\ task[i].patch.kind = "text"
            /\ Did(i, "apply") => (task[i].status = "Failed" /\ LastStep(i) = "apply")
            /\ ~Did(i, "mkdir")
            /\ ~Did(i, "write")
            /\ task[i].status # "Applied"
            /\ cfs[Entry(i).path] = task[i].before
            /\ cdir = task[i].dirBefore

\* C18's case: a listed file was removed on the server; the request for it
\* was answered 500, and the update of the local file, which has bytes,
\* failed.
ErrorResponseLeavesFileWitness ==
    \E i \in DOMAIN task :
        /\ task[i].http = 500
        /\ ~task[i].served.exists
        /\ task[i].status = "Failed"
        /\ task[i].before.bytes # <<>>

\* C19: once a file's update has ended Applied, the local file holds the
\* bytes the server read from its file when it served the patch request,
\* whether or not these are the bytes the listing's hash was made of.
AppliedIsServed ==
    \A i \in DOMAIN task :
        task[i].status = "Applied" =>
            /\ task[i].http = 200
            /\ task[i].served.exists
            /\ cfs[Entry(i).path] = File(task[i].served.bytes)

\* C19's case: the server's file changed after the listing was built, and a
\* local file that had bytes was brought to the changed bytes.
AppliedIsServedWitness ==
    \E i \in DOMAIN task :
        /\ task[i].status = "Applied"
        /\ changes > 0
        /\ FileHash(task[i].served.bytes) # Entry(i).hash
        /\ task[i].before.bytes # <<>>
        /\ cfs[Entry(i).path].bytes # <<>>

\* C20: a step of a sync run changes a local file only if the fetched
\* listing names it and its hash was found to differ, and never removes one;
\* and after the listing could not be fetched the run reads and writes no
\* local file and sends no patch request.
WriteFrame ==
    [][/\ \A p \in RootPaths :
             cfs'[p] # cfs[p] =>
                 /\ cfs'[p].exists
                 /\ \E i \in DOMAIN task :
                       /\ Entry(i).path = p
                       /\ task[i].local_hash # NoHash
                       /\ task[i].local_hash # Entry(i).hash
       /\ (cpc = "err" /\ task = <<>>) =>
             /\ cfs' = cfs
             /\ cdir' = cdir
             /\ srvReads' = srvReads
             /\ task' = <<>>]_vars

\* C20's case: a listed file was written while a local file the listing
\* does not name is there.
WriteFrameWitness ==
    /\ \E i \in DOMAIN task : task[i].status = "Applied"
    /\ \E p \in RootPaths :
          /\ cfs[p].exists
          /\ \A i \in DOMAIN task : Entry(i).path # p

====
